---- MODULE Spec2Model ----
(***************************************************************************)
(* exp.py: open a directory or a file seen from WSL2 with the Windows      *)
(* Explorer.  The model covers the command-line run (main, open_on_windows)*)
(* and direct calls of is_wsl2_path and wsl2_full_path2windows_path as in  *)
(* test_exp.py.                                                            *)
(*                                                                         *)
(* A string is a sequence of one-character strings.  A pathlib.Path is a   *)
(* record [root, parts]; a pathlib.PureWindowsPath is a record             *)
(* [drv, root, names], names being the segments after the anchor.          *)
(***************************************************************************)
EXTENDS Integers, Sequences, FiniteSets, TLC

\* Largest number of "/"-separated components of an input string.
MaxParts == 4

\* --------------------------------------------------------------- characters

LowerSeq == << "a","b","c","d","e","f","g","h","i","j","k","l","m",
               "n","o","p","q","r","s","t","u","v","w","x","y","z" >>

UpperSeq == << "A","B","C","D","E","F","G","H","I","J","K","L","M",
               "N","O","P","Q","R","S","T","U","V","W","X","Y","Z" >>

\* the character class [a-z] of both regular expressions
LowerLetters == { LowerSeq[i] : i \in DOMAIN LowerSeq }

UpperLetters == { UpperSeq[i] : i \in DOMAIN UpperSeq }

\* str.lower() of one character, as PureWindowsPath compares drives
casefold(c) ==
    IF c \in UpperLetters
    THEN LowerSeq[CHOOSE i \in DOMAIN UpperSeq : UpperSeq[i] = c]
    ELSE c

CasefoldStr(s) == [i \in DOMAIN s |-> casefold(s[i])]

\* ------------------------------------------------------------ string helpers

\* s.split(sep): the pieces between separators, empty pieces kept
RECURSIVE SplitOn(_, _)
SplitOn(s, sep) ==
    IF s = << >> THEN << << >> >>
    ELSE LET r == SplitOn(Tail(s), sep)
         IN  IF Head(s) = sep
             THEN << << >> >> \o r
             ELSE << << Head(s) >> \o Head(r) >> \o Tail(r)

\* sep.join(pieces)
RECURSIVE JoinOn(_, _)
JoinOn(pieces, sep) ==
    IF pieces = << >> THEN << >>
    ELSE IF Len(pieces) = 1 THEN Head(pieces)
    ELSE Head(pieces) \o << sep >> \o JoinOn(Tail(pieces), sep)

\* the pieces that are path names: neither empty nor "."
RECURSIVE DropEmptyAndDot(_)
DropEmptyAndDot(pieces) ==
    IF pieces = << >> THEN << >>
    ELSE IF Head(pieces) = << >> \/ Head(pieces) = << "." >>
         THEN DropEmptyAndDot(Tail(pieces))
         ELSE << Head(pieces) >> \o DropEmptyAndDot(Tail(pieces))

\* s.lstrip(c)
RECURSIVE LStrip(_, _)
LStrip(s, c) ==
    IF s # << >> /\ Head(s) = c THEN LStrip(Tail(s), c) ELSE s

\* number of leading occurrences of c
LeadingCount(s, c) == Len(s) - Len(LStrip(s, c))

\* s.replace(old, new) for single characters
Replace(s, old, new) == [i \in DOMAIN s |-> IF s[i] = old THEN new ELSE s[i]]

\* s.startswith(prefix)
StartsWith(s, prefix) ==
    Len(s) >= Len(prefix) /\ SubSeq(s, 1, Len(prefix)) = prefix

\* ------------------------------------------------------------ POSIX paths

\* pathlib.Path(string) on a POSIX host: exactly two leading slashes are
\* kept as the root "//", any other positive number is the root "/";
\* empty and "." components are dropped.
Path(s) ==
    LET n == LeadingCount(s, "/")
    IN  [ root  |-> IF n = 0 THEN << >>
                    ELSE IF n = 2 THEN << "/", "/" >> ELSE << "/" >>,
          parts |-> DropEmptyAndDot(SplitOn(LStrip(s, "/"), "/")) ]

\* Path.as_posix(): the normalised string, "." for the empty path
as_posix(p) ==
    IF p.root = << >> /\ p.parts = << >> THEN << "." >>
    ELSE p.root \o JoinOn(p.parts, "/")

\* Path.parts: the root, when there is one, is the first element
PathParts(p) == IF p.root = << >> THEN p.parts ELSE << p.root >> \o p.parts

\* Path.is_absolute()
is_absolute(p) == p.root # << >>

\* Path.resolve() of an absolute path on a tree without symbolic links:
\* ".." removes the component before it and is dropped at the root.
RECURSIVE ResolveParts(_, _)
ResolveParts(todo, done) ==
    IF todo = << >> THEN done
    ELSE IF Head(todo) = << ".", "." >>
         THEN ResolveParts(Tail(todo),
                           IF done = << >> THEN done
                           ELSE SubSeq(done, 1, Len(done) - 1))
         ELSE ResolveParts(Tail(todo), Append(done, Head(todo)))

resolve(p) == [ root |-> p.root, parts |-> ResolveParts(p.parts, << >>) ]

\* relative_to / path, for a relative path
PathJoin(base, p) == [ root |-> base.root, parts |-> base.parts \o p.parts ]

\* ---------------------------------------------------------- Windows paths

\* pathlib's splitroot of the Windows flavour on a string whose "/" are
\* already "\": a drive is a letter followed by ":", a root is a leading
\* "\" after it.  (UNC prefixes need a name starting with two "\"; no name
\* of the modelled alphabet does.)
WinSplitRoot(part) ==
    LET hasDrv == /\ Len(part) >= 2
                  /\ part[2] = ":"
                  /\ part[1] \in LowerLetters \cup UpperLetters
        drv    == IF hasDrv THEN SubSeq(part, 1, 2) ELSE << >>
        rest   == IF hasDrv THEN SubSeq(part, 3, Len(part)) ELSE part
        rooted == rest # << >> /\ Head(rest) = "\\"
    IN  [ drv  |-> drv,
          root |-> IF rooted THEN << "\\" >> ELSE << >>,
          rel  |-> IF rooted THEN LStrip(rest, "\\") ELSE rest ]

\* PureWindowsPath(string): drive, root and the names of the remainder
PureWindowsPath(s) ==
    LET sp == WinSplitRoot(Replace(s, "/", "\\"))
    IN  [ drv   |-> sp.drv,
          root  |-> sp.root,
          names |-> DropEmptyAndDot(SplitOn(sp.rel, "\\")) ]

\* PureWindowsPath.joinpath(name): a rooted name restarts at the root of
\* the current drive, a name with another drive replaces the whole path,
\* a name with the same drive or with none is appended.
joinpath(reduced, name) ==
    LET p2 == PureWindowsPath(name)
    IN  IF p2.root # << >>
        THEN IF p2.drv = << >> /\ reduced.drv # << >>
             THEN [ drv |-> reduced.drv, root |-> p2.root, names |-> p2.names ]
             ELSE p2
        ELSE IF p2.drv # << >>
        THEN IF CasefoldStr(p2.drv) = CasefoldStr(reduced.drv)
             THEN [ reduced EXCEPT !.names = @ \o p2.names ]
             ELSE p2
        ELSE [ reduced EXCEPT !.names = @ \o p2.names ]

\* str(PureWindowsPath): what the launched process receives
WinStr(w) ==
    IF w.drv = << >> /\ w.root = << >> /\ w.names = << >> THEN << "." >>
    ELSE w.drv \o w.root \o JoinOn(w.names, "\\")

\* ------------------------------------------------------------------ exp.py

MountPrefix == << "/", "m", "n", "t", "/" >>

\* the pattern with the separator after the drive letter required,
\* r"^/mnt/([a-z])(/.*)": a bare /mnt/<letter> no longer matches
findall_rest_required(s) ==
    IF /\ Len(s) >= Len(MountPrefix) + 2
       /\ StartsWith(s, MountPrefix)
       /\ s[Len(MountPrefix) + 1] \in LowerLetters
       /\ s[Len(MountPrefix) + 2] = "/"
    THEN << [ drive |-> s[Len(MountPrefix) + 1],
              path  |-> SubSeq(s, Len(MountPrefix) + 2, Len(s)) ] >>
    ELSE << >>

\* re.findall(r"^/mnt/([a-z])(/?.*)", s): the list of (drive, path) pairs,
\* empty or of one pair since the pattern is anchored at the start.
findall(s) ==
    IF /\ Len(s) >= Len(MountPrefix) + 1
       /\ StartsWith(s, MountPrefix)
       /\ s[Len(MountPrefix) + 1] \in LowerLetters
    THEN << [ drive |-> s[Len(MountPrefix) + 1],
              path  |-> SubSeq(s, Len(MountPrefix) + 2, Len(s)) ] >>
    ELSE << >>

\* reduce(lambda reduced, name: reduced.joinpath(name), names, initial)
RECURSIVE reduce(_, _)
reduce(names, reduced) ==
    IF names = << >> THEN reduced
    ELSE reduce(Tail(names), joinpath(reduced, Head(names)))

NoWindowsPath == [ drv |-> << "?" >>, root |-> << >>, names |-> << >> ]

\* wsl2_full_path2windows_path: [raised |-> "UsageError"] when the list of
\* matches is not exactly one pair, else the reduced Windows path.
wsl2_full_path2windows_path(wsl2_path) ==
    LET found == findall(as_posix(wsl2_path))
    IN  IF Len(found) # 1
        THEN [ raised |-> "UsageError", value |-> NoWindowsPath ]
        ELSE [ raised |-> "none",
               value  |-> reduce(PathParts(Path(found[1].path)),
                                 PureWindowsPath(<< found[1].drive, ":", "\\", "\\" >>)) ]

\* the check without the separator after the drive letter, r"^/mnt/[a-z]"
is_wsl2_path_no_separator(path) ==
    LET s == as_posix(path)
    IN  /\ Len(s) >= Len(MountPrefix) + 1
        /\ StartsWith(s, MountPrefix)
        /\ s[Len(MountPrefix) + 1] \in LowerLetters

\* the loose check: the string merely starts with the mount prefix
is_wsl2_path_loose(path) == StartsWith(as_posix(path), MountPrefix)

\* is_wsl2_path: re.match(r"^/mnt/[a-z]/", path.as_posix()) is not None
is_wsl2_path(path) ==
    LET s == as_posix(path)
    IN  /\ Len(s) >= Len(MountPrefix) + 2
        /\ StartsWith(s, MountPrefix)
        /\ s[Len(MountPrefix) + 1] \in LowerLetters
        /\ s[Len(MountPrefix) + 2] = "/"

\* get_path: the current directory when nothing is given
get_path(path_str, current) ==
    IF path_str = << >> THEN current
    ELSE IF is_absolute(Path(path_str)) THEN resolve(Path(path_str))
    ELSE resolve(PathJoin(current, Path(path_str)))

\* relative_path2absolute (FileSideEffects.py)
relative_path2absolute(path, relative_to) ==
    IF ~ is_absolute(path) THEN resolve(PathJoin(relative_to, path)) ELSE path

\* explorer: Path(r"/mnt") / "c" / "Windows" / "explorer.exe"
Explorer ==
    [ root  |-> << "/" >>,
      parts |-> << << "m","n","t" >>, << "c" >>,
                   << "W","i","n","d","o","w","s" >>,
                   << "e","x","p","l","o","r","e","r",".","e","x","e" >> >> ]

\* ------------------------------------------------------------------- inputs

\* the path names of the modelled alphabet: the mount directory, a drive
\* letter in both cases, plain names, the dot names, and names holding the
\* Windows separator or a drive prefix (legal in a POSIX file name)
Names ==
    { << "m","n","t" >>, << "m","t" >>, << "c" >>, << "C" >>, << "c","d" >>,
      << "." >>, << ".","." >>, << "a","\\","b" >>, << "d",":","x" >> }

SeqsUpTo(S, n) == UNION { [1..k -> S] : k \in 0..n }

Slashes(n) == [i \in 1..n |-> "/"]

\* the strings given as a path: none to two leading slashes, then up to
\* MaxParts names separated by "/"
RawPaths ==
    { Slashes(k) \o JoinOn(s, "/") : k \in 0..2, s \in SeqsUpTo(Names, MaxParts) }

\* the directories the tool is started in, as Path(".").resolve() gives them
WorkingDirectories ==
    { Path(<< "/","m","n","t","/","c","/","c","d" >>), Path(<< "/","m","t" >>) }

ProgramName == << "e","x","p",".","p","y" >>

NoPath == [ root |-> << "?" >>, parts |-> << >> ]

\* -------------------------------------------------------------------- state

VARIABLES
    mode,          \* "main": run as a script; "unit": functions called directly
    pc,            \* position of the run
    os_name,       \* os.name
    argv,          \* sys.argv
    cwd,           \* Path(".").resolve()
    to_open,       \* the path handed to open_on_windows / to the function called
    accepted,      \* what is_wsl2_path returned: "unset", "true", "false"
    windows_path,  \* what wsl2_full_path2windows_path returned
    raised,        \* the exception raised, "none" when none
    launched,      \* the processes started by subprocess.run
    child_rc,      \* return code of the child, -1 while there is none
    stdout,        \* what was printed
    stderr,        \* what was written to sys.stderr
    exit_code      \* exit status of the run, -1 while it runs

vars == << mode, pc, os_name, argv, cwd, to_open, accepted, windows_path,
           raised, launched, child_rc, stdout, stderr, exit_code >>

\* the values the state takes
TypeOK ==
    /\ mode \in { "main", "unit" }
    /\ pc \in { "start", "try", "open", "run", "waiting", "except", "exited",
                "call", "classified", "translated" }
    /\ os_name \in { "posix", "nt" }
    /\ Len(argv) \in 0..2
    /\ cwd \in WorkingDirectories
    /\ to_open = NoPath \/ to_open.root \in { << >>, << "/" >>, << "/", "/" >> }
    /\ accepted \in { "unset", "true", "false" }
    /\ windows_path = NoWindowsPath \/ Len(windows_path.drv) = 2
    /\ raised \in { "none", "UsageError", "NotInspectableError",
                    "KeyboardInterrupt", "IndexError", "OSError" }
    /\ Len(launched) \in 0..1
    /\ child_rc \in -1..1
    /\ Len(stdout) \in 0..1
    /\ Len(stderr) \in 0..1
    /\ exit_code \in -1..1

InitCommon ==
    /\ accepted = "unset"
    /\ windows_path = NoWindowsPath
    /\ raised = "none"
    /\ launched = << >>
    /\ child_rc = -1
    /\ stdout = << >>
    /\ stderr = << >>
    /\ exit_code = -1

\* python exp.py [<path>]
InitMain ==
    /\ mode = "main"
    /\ pc = "start"
    /\ os_name \in { "posix", "nt" }
    /\ argv \in { << ProgramName >> } \cup { << ProgramName, r >> : r \in RawPaths }
    /\ cwd \in WorkingDirectories
    /\ to_open = NoPath
    /\ InitCommon

\* a direct call of a function on a Path, as test_exp.py does
InitUnit ==
    /\ mode = "unit"
    /\ pc = "call"
    /\ os_name = "posix"
    /\ argv = << >>
    /\ cwd \in { Path(<< "/","m","t" >>) }
    /\ to_open \in { Path(r) : r \in RawPaths }
    /\ InitCommon

Init == InitMain \/ InitUnit

\* ------------------------------------------------------------------ actions

\* the message of an error raised on to_open: e.args[0]
Message(kind, path) == [ kind |-> kind, path |-> as_posix(path) ]

\* an exception no handler of main catches: traceback, exit status 1
Uncaught(kind) ==
    /\ raised' = kind
    /\ stderr' = Append(stderr, [ kind |-> "Traceback", path |-> << >> ])
    /\ exit_code' = 1
    /\ pc' = "exited"

\* main: the check of os.name
CheckOS ==
    /\ mode = "main" /\ pc = "start"
    /\ IF os_name = "nt"
       THEN /\ stdout' = Append(stdout, "usable only on WSL2")
            /\ exit_code' = 1
            /\ pc' = "exited"
       ELSE /\ pc' = "try"
            /\ UNCHANGED << stdout, exit_code >>
    /\ UNCHANGED << mode, os_name, argv, cwd, to_open, accepted, windows_path,
                    raised, launched, child_rc, stderr >>

\* main: current_directory, to_open = relative_path2absolute(Path(sys.argv[1]), ...)
ResolveArgument ==
    /\ mode = "main" /\ pc = "try"
    /\ IF Len(argv) < 2
       THEN /\ Uncaught("IndexError")
            /\ UNCHANGED to_open
       ELSE /\ to_open' = relative_path2absolute(Path(argv[2]), cwd)
            /\ pc' = "open"
            /\ UNCHANGED << raised, stderr, exit_code >>
    /\ UNCHANGED << mode, os_name, argv, cwd, accepted, windows_path,
                    launched, child_rc, stdout >>

\* open_on_windows without the guard: every path is handed to the translator
open_on_windows_unchecked ==
    /\ mode = "main" /\ pc = "open"
    /\ LET r == wsl2_full_path2windows_path(to_open)
       IN  /\ accepted' = IF is_wsl2_path(to_open) THEN "true" ELSE "false"
           /\ raised' = r.raised
           /\ windows_path' = r.value
           /\ pc' = IF r.raised = "none" THEN "run" ELSE "except"
    /\ UNCHANGED << mode, os_name, argv, cwd, to_open, launched, child_rc,
                    stdout, stderr, exit_code >>

\* open_on_windows up to the call of run: classify, translate or raise
open_on_windows ==
    /\ mode = "main" /\ pc = "open"
    /\ IF is_wsl2_path(to_open)
       THEN LET r == wsl2_full_path2windows_path(to_open)
            IN  /\ accepted' = "true"
                /\ raised' = r.raised
                /\ windows_path' = r.value
                /\ pc' = IF r.raised = "none" THEN "run" ELSE "except"
       ELSE /\ accepted' = "false"
            /\ raised' = "NotInspectableError"
            /\ pc' = "except"
            /\ UNCHANGED windows_path
    /\ UNCHANGED << mode, os_name, argv, cwd, to_open, launched, child_rc,
                    stdout, stderr, exit_code >>

\* run([explorer, windows_path]): the child is started, or starting it fails
\* with an OSError that main does not catch
Run ==
    /\ mode = "main" /\ pc = "run"
    /\ \/ /\ launched' = Append(launched, [ exe |-> Explorer, args |-> << windows_path >> ])
          /\ pc' = "waiting"
          /\ UNCHANGED << raised, stderr, exit_code >>
       \/ /\ Uncaught("OSError")
          /\ UNCHANGED launched
    /\ UNCHANGED << mode, os_name, argv, cwd, to_open, accepted, windows_path,
                    child_rc, stdout >>

\* the run ending with the return code of the child as its exit status
RunReturns_child_status ==
    /\ mode = "main" /\ pc = "waiting"
    /\ \E rc \in { 0, 1 } : child_rc' = rc /\ exit_code' = rc
    /\ pc' = "exited"
    /\ UNCHANGED << mode, os_name, argv, cwd, to_open, accepted, windows_path,
                    raised, launched, stdout, stderr >>

\* run returns with any return code, main returns, sys.exit(0)
RunReturns ==
    /\ mode = "main" /\ pc = "waiting"
    /\ \E rc \in { 0, 1 } : child_rc' = rc
    /\ exit_code' = 0
    /\ pc' = "exited"
    /\ UNCHANGED << mode, os_name, argv, cwd, to_open, accepted, windows_path,
                    raised, launched, stdout, stderr >>

\* except (UsageError, NotInspectableError) as e
HandleError ==
    /\ mode = "main" /\ pc = "except"
    /\ stderr' = Append(stderr, Message(raised, to_open))
    /\ exit_code' = 1
    /\ pc' = "exited"
    /\ UNCHANGED << mode, os_name, argv, cwd, to_open, accepted, windows_path,
                    raised, launched, child_rc, stdout >>

\* except KeyboardInterrupt: an interrupt anywhere in the try block,
\* the wait for the child included
KeyboardInterrupt ==
    /\ mode = "main" /\ pc \in { "try", "open", "run", "waiting" }
    /\ raised' = "KeyboardInterrupt"
    /\ exit_code' = 1
    /\ pc' = "exited"
    /\ UNCHANGED << mode, os_name, argv, cwd, to_open, accepted, windows_path,
                    launched, child_rc, stdout, stderr >>

\* is_wsl2_path(to_open) called directly
CallClassifier ==
    /\ mode = "unit" /\ pc = "call"
    /\ accepted' = IF is_wsl2_path(to_open) THEN "true" ELSE "false"
    /\ pc' = "classified"
    /\ UNCHANGED << mode, os_name, argv, cwd, to_open, windows_path, raised,
                    launched, child_rc, stdout, stderr, exit_code >>

\* wsl2_full_path2windows_path(to_open) called directly
CallTranslator ==
    /\ mode = "unit" /\ pc \in { "call", "classified" }
    /\ LET r == wsl2_full_path2windows_path(to_open)
       IN  /\ raised' = r.raised
           /\ windows_path' = r.value
    /\ pc' = "translated"
    /\ UNCHANGED << mode, os_name, argv, cwd, to_open, accepted, launched,
                    child_rc, stdout, stderr, exit_code >>

Next ==
    \/ CheckOS
    \/ ResolveArgument
    \/ open_on_windows
    \/ Run
    \/ RunReturns
    \/ HandleError
    \/ KeyboardInterrupt
    \/ CallClassifier
    \/ CallTranslator

Spec == Init /\ [][Next]_vars

\* ------------------------------------------------------------------- claims

Mnt == << "m","n","t" >>

\* p is /mnt/<one lowercase letter> followed by any number of names
UnderDrive(p) ==
    /\ p.root = << "/" >>
    /\ Len(p.parts) >= 2
    /\ p.parts[1] = Mnt
    /\ Len(p.parts[2]) = 1
    /\ p.parts[2][1] \in LowerLetters

\* the pieces that are not empty
NonEmpty(pieces) == SelectSeq(pieces, LAMBDA x : x # << >>)

\* the translator was called directly and has returned or raised
Translated == mode = "unit" /\ pc = "translated"

\* C1: for a path /mnt/d/s1/.../sn (d one lowercase letter, n >= 1) the
\* translator returns the Windows path with drive d, the root "\" and
\* exactly the segments s1..sn in this order.
C1_ComponentsPreserved ==
    (Translated /\ UnderDrive(to_open) /\ Len(to_open.parts) >= 3) =>
        /\ raised = "none"
        /\ CasefoldStr(windows_path.drv) = << to_open.parts[2][1], ":" >>
        /\ windows_path.root = << "\\" >>
        /\ windows_path.names = SubSeq(to_open.parts, 3, Len(to_open.parts))

\* the pattern ^/mnt/<single-lowercase-letter>(/<rest>)?$ on a string
MatchesMountPattern(s) ==
    /\ Len(s) >= Len(MountPrefix) + 1
    /\ StartsWith(s, MountPrefix)
    /\ s[Len(MountPrefix) + 1] \in LowerLetters
    /\ (Len(s) = Len(MountPrefix) + 1 \/ s[Len(MountPrefix) + 2] = "/")

\* C2: the translator raises UsageError, and returns no path, for every
\* input whose POSIX string does not match ^/mnt/<letter>(/<rest>)?$.
C2_RejectsMalformed ==
    (Translated /\ ~ MatchesMountPattern(as_posix(to_open))) =>
        (raised = "UsageError" /\ windows_path = NoWindowsPath)

\* C3: is_wsl2_path returns a boolean, and returns true exactly for the
\* paths /mnt/<one lowercase letter>/<at least one name>: not for a bare
\* mount root, a longer or uppercase drive segment, another directory or
\* the empty path.
C3_StrictClassifier ==
    (mode = "unit" /\ pc = "classified") =>
        /\ accepted \in { "true", "false" }
        /\ accepted = "true" <=> (UnderDrive(to_open) /\ Len(to_open.parts) >= 3)

C3_Witness ==
    /\ mode = "unit" /\ pc = "classified"
    /\ accepted = "true"
    /\ to_open = Path(<< "/","m","n","t","/","c","/","m","t" >>)

\* C4: for a path that is exactly /mnt/d, d one lowercase letter, the
\* translator returns the drive root of d: drive d, root "\", no segment.
C4_RootOnly ==
    (Translated /\ UnderDrive(to_open) /\ Len(to_open.parts) = 2) =>
        /\ raised = "none"
        /\ CasefoldStr(windows_path.drv) = << to_open.parts[2][1], ":" >>
        /\ windows_path.root = << "\\" >>
        /\ windows_path.names = << >>

C4_Witness ==
    /\ Translated
    /\ to_open = Path(<< "/","m","n","t","/","c" >>)
    /\ raised = "none"
    /\ WinStr(windows_path) = << "c", ":", "\\" >>

\* C5: whenever the translator returns, the drive letter of the rendered
\* Windows path is an uppercase letter.
C5_UppercaseDrive ==
    (Translated /\ raised = "none") => WinStr(windows_path)[1] \in UpperLetters

\* C6: whenever the translator returns, splitting the rendered result on
\* "\" after the three characters of the drive root gives the names that
\* follow the drive letter in the input.
C6_RoundTrip ==
    (Translated /\ raised = "none") =>
        LET rendered == WinStr(windows_path)
            given    == as_posix(to_open)
        IN  NonEmpty(SplitOn(SubSeq(rendered, 4, Len(rendered)), "\\"))
            = NonEmpty(SplitOn(SubSeq(given, Len(MountPrefix) + 2, Len(given)), "/"))

HandledErrors == { "UsageError", "NotInspectableError" }

\* C7: a run ends with exit code 0 when the browser was launched, with
\* exit code 1 and the message on the error stream on a handled error,
\* and with exit code 1 and nothing written on a keyboard interrupt.
C7_ExitCodes ==
    (mode = "main" /\ pc = "exited") =>
        /\ launched # << >> => exit_code = 0
        /\ raised \in HandledErrors =>
               (exit_code = 1 /\ stderr = << Message(raised, to_open) >>)
        /\ raised = "KeyboardInterrupt" => (exit_code = 1 /\ stderr = << >>)

\* C7 as amended: exit code 0 when the browser was launched and the run
\* was not interrupted, whatever the child returned; exit code 1 and the message on the error stream on a handled
\* error; exit code 1 and nothing written on a keyboard interrupt in the
\* try block, also when the browser is already launched.
C7_ExitCodesAmended ==
    (mode = "main" /\ pc = "exited") =>
        /\ (launched # << >> /\ raised = "none") => (exit_code = 0 /\ child_rc \in { 0, 1 })
        /\ exit_code = 0 => (launched # << >> /\ raised = "none")
        /\ raised \in HandledErrors =>
               (exit_code = 1 /\ stderr = << Message(raised, to_open) >>)
        /\ raised = "KeyboardInterrupt" => (exit_code = 1 /\ stderr = << >>)

C7_Witness ==
    /\ mode = "main" /\ pc = "exited"
    /\ launched # << >> /\ raised = "none"
    /\ child_rc = 1
    /\ exit_code = 0

\* C8: a run without a path argument opens the current working directory
\* and does not fail for lack of the argument.
C8_DefaultsToCwd ==
    (/\ mode = "main" /\ pc = "exited"
     /\ os_name # "nt"
     /\ Len(argv) = 1
     /\ raised # "KeyboardInterrupt") =>
        /\ raised # "IndexError"
        /\ to_open = get_path(<< >>, cwd)

\* C9: at most one process is launched, and only on a host other than
\* "nt" for a path is_wsl2_path accepted and the translator translated;
\* it is the explorer with the translated path as its only argument.  For
\* a path is_wsl2_path rejects, nothing is launched, NotInspectableError
\* is raised and the run exits non-zero.
C9_LaunchOnlyWhenAccepted ==
    /\ Len(launched) <= 1
    /\ os_name = "nt" => launched = << >>
    /\ launched # << >> =>
           /\ accepted = "true" /\ is_wsl2_path(to_open)
           /\ wsl2_full_path2windows_path(to_open).raised = "none"
           /\ launched[1] = [ exe  |-> Explorer,
                              args |-> << wsl2_full_path2windows_path(to_open).value >> ]
    /\ (mode = "main" /\ to_open # NoPath /\ ~ is_wsl2_path(to_open)) =>
           /\ launched = << >>
           /\ accepted # "true"
           /\ accepted = "false" =>
                  /\ raised = "NotInspectableError"
                  /\ pc = "exited" => exit_code = 1

C9_Witness ==
    /\ mode = "main" /\ pc = "exited"
    /\ Len(launched) = 1
    /\ launched[1].exe = Explorer
    /\ WinStr(launched[1].args[1]) = << "c", ":", "\\", "m", "t" >>

\* C10: every path is_wsl2_path accepts is translated without UsageError;
\* a run never raises UsageError and the only error main handles is
\* NotInspectableError.
C10_ClassifierImpliesTranslator ==
    /\ (Translated /\ accepted = "true") => raised = "none"
    /\ mode = "main" =>
           /\ raised # "UsageError"
           /\ pc = "except" => raised = "NotInspectableError"
           /\ \A i \in DOMAIN stderr :
                  stderr[i].kind \in { "NotInspectableError", "Traceback" }

C10_Witness ==
    /\ Translated
    /\ accepted = "true"
    /\ raised = "none"
    /\ Len(to_open.parts) = MaxParts

====
